---------------------------- MODULE Spec2Model ----------------------------
(***************************************************************************)
(* Model of src/src/tone_generator.py: class TinnitusFrequencyIdentifier.  *)
(*                                                                         *)
(* Two execution contexts act on one object:                               *)
(*   - the control (Tk main-loop) thread, which runs the widget handlers   *)
(*     on_frequency_change / on_q_change / on_hz_range_change /            *)
(*     on_octave_range_change / toggle_power and start_playback /          *)
(*     stop_playback;                                                      *)
(*   - the audio thread of an output stream, which runs audio_callback.    *)
(* The code takes no lock, so the two interleave between attribute         *)
(* accesses: every action below makes at most one access to a field the    *)
(* other thread reads or writes (accesses to fields only the control       *)
(* thread uses are merged into the neighbouring step).                     *)
(*                                                                         *)
(* Numbers.  Python floats are modelled as fixed-point integers with       *)
(* resolution 1/S; every arithmetic operator rounds (truncates) to that    *)
(* resolution, as a float operation rounds to its own.  The largest        *)
(* magnitude the model's numbers hold is FloatMax, which stands for the    *)
(* largest finite float: a product beyond it is non-finite (inf, and nan   *)
(* once it is multiplied by 0 or passed to sin).                           *)
(***************************************************************************)
EXTENDS Integers, Sequences, FiniteSets, TLC

----------------------------------------------------------------------------
(* Fixed-point arithmetic.  Overflow is modelled where the callback forms
   the phase 2 * pi * freq (Overflows below); the inputs are chosen so that
   no other operation leaves the range. *)

S == 10^4
FloatMax == 2 * (2^30 - 1) + 1

Num(n) == n * S
Frac(n, d) == (n * S) \div d

Abs(x) == IF x < 0 THEN -x ELSE x
Sign(a, b) == IF (a < 0) # (b < 0) THEN -1 ELSE 1
Max(a, b) == IF a >= b THEN a ELSE b
Min(a, b) == IF a <= b THEN a ELSE b

RECURSIVE DivDigits(_, _, _, _)
DivDigits(acc, r, y, n) ==
    IF n = 0 THEN acc
    ELSE DivDigits(acc * 10 + (r * 10) \div y, (r * 10) % y, y, n - 1)

RECURSIVE DivPos(_, _)
DivPos(x, y) ==
    IF y > 2 * 10^8 THEN DivPos(x \div 10, y \div 10)
    ELSE DivDigits(x \div y, x % y, y, 4)

(* a / b for b # 0 (here and in Mul, Log2 and Exp2 the arguments are bound
   to their values first, so that each is evaluated once) *)
Div(a, b) ==
    CHOOSE r \in {Sign(u, v) * DivPos(Abs(u), Abs(v)) : u \in {a}, v \in {b}} :
        TRUE

MulPos(x, y) == (x \div S) * y + ((x % S) * y) \div S

(* a * b *)
Mul(a, b) ==
    CHOOSE r \in {Sign(u, v) * (IF Abs(u) >= Abs(v)
                                THEN MulPos(Abs(u), Abs(v))
                                ELSE MulPos(Abs(v), Abs(u))) :
                      u \in {a}, v \in {b}} : TRUE

(* 2^(2^-i) for i = 1 .. LogBits, to resolution 1/S *)
RootsOfTwo ==
    <<14142, 11892, 10905, 10443, 10219, 10109, 10054,
      10027, 10014, 10007, 10003, 10002, 10001>>

LogBits == Len(RootsOfTwo)

(* math.log2: binary logarithm of x > 0, by normalisation to [1, 2) and
   repeated squaring, LogBits fractional bits *)
RECURSIVE LogNorm(_, _)
LogNorm(x, n) ==
    IF x >= 2 * S THEN LogNorm(x \div 2, n + 1)
    ELSE IF x < S THEN LogNorm(x * 2, n - 1)
    ELSE <<x, n>>

RECURSIVE LogFrac(_, _, _)
LogFrac(x, b, i) ==
    IF i = 0 THEN b
    ELSE CHOOSE r \in
             {IF sq >= 2 * S THEN LogFrac(sq \div 2, 2 * b + 1, i - 1)
              ELSE LogFrac(sq, 2 * b, i - 1) : sq \in {(x * x) \div S}} :
             TRUE

Log2(x) ==
    CHOOSE r \in {nm[2] * S + (LogFrac(nm[1], 0, LogBits) * S) \div 2^LogBits :
                      nm \in {LogNorm(x, 0)}} : TRUE


RECURSIVE ExpFrac(_, _, _)
ExpFrac(b, i, x) ==
    IF i > LogBits THEN x
    ELSE IF (b \div 2^(LogBits - i)) % 2 = 1
         THEN ExpFrac(b, i + 1, (x * RootsOfTwo[i]) \div S)
         ELSE ExpFrac(b, i + 1, x)

(* 2 ** y *)
Exp2(y) ==
    CHOOSE r \in
        {LET n  == v \div S
             fr == v % S
             x  == ExpFrac((fr * 2^LogBits) \div S, 1, S)
         IN  IF n >= 0 THEN x * 2^n ELSE x \div 2^(-n) : v \in {y}} : TRUE

----------------------------------------------------------------------------
(* Bounds of the exploration *)

(* parameter edits (setter events) dispatched by the main loop, when only
   the control thread is explored (SpecControl) *)
MaxEdits == 3
(* parameter edits dispatched while the audio thread runs too (Spec) *)
MaxLiveEdits == 1
(* output streams the audio backend can hand out *)
MaxStreams == 2
(* frames of a block the audio backend asks for *)
Frames == 2

(* frequencies get_frequency_weighting is applied to, when the function is
   explored by itself (SpecWeighting): multiples of WeightStep up to
   MaxWeightSteps of them, and the edges of its pieces *)
MaxWeightSteps == 80

(* Arguments the handlers are called with.  In-domain values and, for the
   error policy, out-of-domain ones (the handlers take any number). *)
FreqInputs   == {Num(20), Num(1000), Num(20000), Num(10), Num(40000)}
QInputs      == {Num(30), Frac(1, 2), 0, Num(-1), Num(200)}
HzInputs     == {Num(50), 0, Num(-5)}
OctaveInputs == {0, Frac(1, 2), Frac(-1, 2)}
(* time.inputBufferAdcTime handed to the callback, seconds *)
AdcTimes     == {0, Num(1), Frac(39999, 10000)}

WeightStep   == Num(250)
WeightInputs ==
    {k * WeightStep : k \in 0 .. MaxWeightSteps}
        \cup {Num(-100), Frac(199, 10), Num(20), Frac(9999, 10), Num(1000),
              Frac(39999, 10), Num(4000), Num(20000), Frac(200001, 10),
              Num(30000)}

InDomain(op, v) ==
    CASE op = "on_frequency_change"    -> Num(20) <= v /\ v <= Num(20000)
      [] op = "on_q_change"            -> 0 < v /\ v <= Num(100)
      [] op = "on_hz_range_change"     -> 0 < v /\ v <= Num(500)
      [] op = "on_octave_range_change" -> 0 <= v /\ v <= Num(1)
      [] OTHER                         -> TRUE

----------------------------------------------------------------------------
VARIABLES
    (* fields of TinnitusFrequencyIdentifier *)
    frequency, quality_factor, frequency_range_hz, frequency_range_octaves,
    is_playing, audio_stream, power_button,
    updating_q, updating_hz, updating_octave,
    (* module global, fixed when sounddevice is imported *)
    AUDIO_AVAILABLE,
    (* the audio backend: every stream it has handed out, by id *)
    streams,
    (* control thread: call stack of handler frames, empty in the main loop *)
    stack,
    (* audio thread: the callback invocation in progress, its locals *)
    cb,
    (* history: the frame times of the last block synthesized since a stream
       was last started, in sample periods; empty when there is none *)
    played,
    (* history: last event dispatched, how it ended, what was fed so far *)
    lastOp, lastArg, lastExit, inDomain, devFail, edits,
    (* history: the parameter call dispatched just before the last one, and
       the bandwidth it left *)
    prev,
    (* history: the parameters as they stood when the control thread last
       went back to the main loop, and every such snapshot taken since the
       callback in progress began *)
    committed, snaps,
    (* the file-processing programs, which share nothing with the tone
       generator: AudioProcessor with the file system it works on, and
       NotchedMusicGUI with its worker threads *)
    batch, gui

params  == <<frequency, quality_factor, frequency_range_hz,
             frequency_range_octaves>>
flags   == <<updating_q, updating_hz, updating_octave>>
engine  == <<is_playing, audio_stream, power_button, streams>>
audio   == <<cb, played>>
history == <<lastOp, lastArg, inDomain, edits, prev>>
exits   == <<lastExit, committed, snaps>>
tone    == <<params, flags, engine, AUDIO_AVAILABLE, stack, audio, history,
             exits, devFail>>
offline == <<batch, gui>>
vars    == <<tone, offline>>

None == 0
StreamIds == 1 .. MaxStreams

Snap(f, q, hz) == [f |-> f, q |-> q, hz |-> hz]
Snapshot == Snap(frequency, quality_factor, frequency_range_hz)

Setters == {"on_frequency_change", "on_q_change", "on_hz_range_change",
            "on_octave_range_change"}
NoPrev == [op |-> "none", arg |-> 0, ok |-> TRUE, hz |-> 0, oct |-> 0]

NoBlock ==
    [kind |-> "none", freq |-> 0, weight |-> 0, amp |-> 0, depth |-> 0,
     partials |-> <<>>]
IdleCb ==
    [pc |-> "idle", stream |-> None, adc |-> 0, t |-> <<>>, a |-> 0,
     lower |-> 0,
     upper |-> 0, cur |-> 0, rf |-> {}, rhz |-> {}, rq |-> {},
     out |-> NoBlock]

(* __init__: the fields of the object and the threads' positions *)
Constructed ==
    /\ frequency = Num(1000)
    /\ quality_factor = Num(30)
    /\ frequency_range_hz = Frac(333, 10)
    /\ frequency_range_octaves = Frac(1, 10)
    /\ is_playing = FALSE
    /\ audio_stream = None
    /\ power_button = "OFF"
    /\ updating_q = FALSE
    /\ updating_hz = FALSE
    /\ updating_octave = FALSE
    /\ AUDIO_AVAILABLE \in BOOLEAN
    /\ streams = [s \in StreamIds |-> "free"]
    /\ stack = <<>>
    /\ played = <<>>
    /\ lastOp = "none"
    /\ lastArg = 0
    /\ lastExit = "none"
    /\ inDomain = TRUE
    /\ devFail = FALSE
    /\ edits = 0
    /\ prev = NoPrev
    /\ committed = Snap(Num(1000), Num(30), Frac(333, 10))
    /\ snaps = {}

(* paths: directory, stem and extension *)
Path(dir, stem, ext) == [dir |-> dir, stem |-> stem, ext |-> ext]
NoPath == Path("", "", "")

(* one call of process_file: where it stands, and what each stage of the
   pipeline did ("no": not attempted) *)
IdleFile ==
    [pc |-> "idle", input_path |-> NoPath, output_path |-> NoPath,
     loaded |-> "no", filtered |-> "no", saved |-> "no", metadata |-> "no",
     result |-> FALSE, exit |-> "none", caller |-> "none"]
IdleDirectory ==
    [pc |-> "idle", audio_files |-> {}, processed_files |-> <<>>,
     exit |-> "none"]
IdleBatch ==
    [fs |-> {}, input_exists |-> FALSE, file |-> IdleFile,
     directory |-> IdleDirectory, written |-> {}]

(* the form of NotchedMusicGUI as constructed, its threads *)
IdleGui ==
    [input_dir |-> "", output_dir |-> "", notch_frequency |-> Num(1000),
     quality_factor |-> Num(30), frequency_range |-> Num(50),
     use_frequency_range |-> FALSE, is_processing |-> FALSE,
     process_button |-> "normal", pc |-> "idle", workers |-> <<>>,
     after |-> 0, lastStart |-> "none"]

(* the file-processing programs have not been started *)
OfflineIdle == batch = IdleBatch /\ gui = IdleGui

Init == Constructed /\ cb = IdleCb /\ OfflineIdle

----------------------------------------------------------------------------
(* Control thread: frames and how a handler ends *)

Frame(op, arg) == [op |-> op, pc |-> "enter", arg |-> arg]
Top == stack[Len(stack)]
Pop == SubSeq(stack, 1, Len(stack) - 1)
Running(op) == stack # <<>> /\ Top.op = op
At(op, pc) == Running(op) /\ Top.pc = pc

(* the frame moves on to pc *)
Goto(pc) ==
    /\ stack' = [stack EXCEPT ![Len(stack)].pc = pc]
    /\ UNCHANGED exits

(* the frame is left; with the last frame the control thread is back in the
   main loop, and the parameters as they now stand (snap) are what any
   later callback finds *)
Leave(rest, how, snap) ==
    /\ stack' = rest
    /\ IF rest = <<>>
       THEN /\ lastExit' = how
            /\ committed' = snap
            /\ snaps' = IF cb.pc = "idle" THEN snaps ELSE snaps \cup {snap}
       ELSE UNCHANGED exits

Return(snap) == Leave(Pop, "return", snap)

(* no handler of the class catches what a setter raises: the exception
   unwinds every frame and Tk reports it from the main loop *)
Raise(snap) == Leave(<<>>, "raise", snap)

(* var.set(): the widget bound to the variable may call its command, here
   nested in the running handler; the frame resumes at pc afterwards *)
VarSet(command, value, pc) ==
    \/ Goto(pc)
    \/ /\ stack' = Append([stack EXCEPT ![Len(stack)].pc = pc],
                          Frame(command, value))
       /\ UNCHANGED exits

----------------------------------------------------------------------------
(* The main loop dispatches one event to its handler *)

Edit(bound) ==
    /\ stack = <<>>
    /\ edits < bound
    /\ \E op \in Setters :
         \E v \in (CASE op = "on_frequency_change" -> FreqInputs
                     [] op = "on_q_change" -> QInputs
                     \* a given width or, right after on_q_change, the
                     \* one read from the field
                     [] op = "on_hz_range_change" ->
                            HzInputs \cup (IF lastOp = "on_q_change"
                                           THEN {frequency_range_hz}
                                           ELSE {})
                     [] OTHER -> OctaveInputs) :
            /\ stack' = <<Frame(op, v)>>
            /\ lastOp' = op
            /\ lastArg' = v
            /\ inDomain' = (inDomain /\ InDomain(op, v))
    /\ edits' = edits + 1
    /\ prev' = IF lastOp \in Setters
               THEN [op |-> lastOp, arg |-> lastArg, ok |-> inDomain,
                     hz |-> frequency_range_hz,
                     oct |-> frequency_range_octaves]
               ELSE NoPrev
    /\ lastExit' = "running"
    /\ UNCHANGED <<params, flags, engine, AUDIO_AVAILABLE, audio, committed,
                   snaps, devFail>>
    /\ UNCHANGED offline

EditEvent == Edit(MaxEdits)
LiveEditEvent == Edit(MaxLiveEdits)

----------------------------------------------------------------------------
(* Conversions *)

hz_to_octaves_raises(hz_range) ==
    \/ frequency = 0                          \* ZeroDivisionError
    \/ S + Div(hz_range, frequency) <= 0      \* ValueError: math domain error

(* hz_to_octaves without the logarithm: the ratio itself *)
hz_to_octaves_linear(hz_range) == Div(hz_range, frequency)

hz_to_octaves(hz_range) == Log2(S + Div(hz_range, frequency))

(* octaves_to_hz without the "- 1" *)
octaves_to_hz_no_offset(octave_range) == Mul(frequency, Exp2(octave_range))

octaves_to_hz(octave_range) == Mul(frequency, Exp2(octave_range) - S)

----------------------------------------------------------------------------
(* Parameter handlers *)

(* on_frequency_change deriving the width again from the stored Q *)
on_frequency_change_rederives ==
    /\ At("on_frequency_change", "enter")
    /\ frequency' = Top.arg
    /\ frequency_range_hz' = IF quality_factor = 0 THEN frequency_range_hz
                             ELSE Div(Top.arg, quality_factor)
    /\ Return(Snap(Top.arg, quality_factor, frequency_range_hz'))
    /\ UNCHANGED <<quality_factor, frequency_range_octaves, flags, engine,
                   AUDIO_AVAILABLE, audio, history, devFail>>
    /\ UNCHANGED offline

on_frequency_change ==
    /\ At("on_frequency_change", "enter")
    /\ frequency' = Top.arg
    /\ Return(Snap(Top.arg, quality_factor, frequency_range_hz))
    /\ UNCHANGED <<quality_factor, frequency_range_hz,
                   frequency_range_octaves, flags, engine, AUDIO_AVAILABLE,
                   audio, history, devFail>>
    /\ UNCHANGED offline

q_guard == updating_q

on_q_change ==
    /\ Running("on_q_change")
    /\ \/ /\ Top.pc = "enter"
          /\ IF q_guard
             THEN /\ Return(Snapshot)
                  /\ UNCHANGED <<params, flags>>
             ELSE /\ updating_hz' = TRUE
                  /\ updating_octave' = TRUE
                  /\ quality_factor' = Top.arg
                  /\ Goto("hz")
                  /\ UNCHANGED <<frequency, frequency_range_hz,
                                 frequency_range_octaves, updating_q>>
       \/ /\ Top.pc = "hz"
          /\ IF quality_factor = 0
             THEN /\ Raise(Snapshot)
                  /\ UNCHANGED <<params, flags>>
             ELSE /\ frequency_range_hz' = Div(frequency, quality_factor)
                  /\ Goto("oct")
                  /\ UNCHANGED <<frequency, quality_factor,
                                 frequency_range_octaves, flags>>
       \/ /\ Top.pc = "oct"
          /\ IF hz_to_octaves_raises(frequency_range_hz)
             THEN /\ Raise(Snapshot)
                  /\ UNCHANGED <<params, flags>>
             ELSE /\ frequency_range_octaves' =
                        hz_to_octaves(frequency_range_hz)
                  /\ Goto("set1")
                  /\ UNCHANGED <<frequency, quality_factor,
                                 frequency_range_hz, flags>>
       \/ /\ Top.pc = "set1"
          /\ VarSet("on_hz_range_change", frequency_range_hz, "set2")
          /\ UNCHANGED <<params, flags>>
       \/ /\ Top.pc = "set2"
          /\ VarSet("on_octave_range_change", frequency_range_octaves, "exit")
          /\ UNCHANGED <<params, flags>>
       \/ /\ Top.pc = "exit"
          /\ updating_hz' = FALSE
          /\ updating_octave' = FALSE
          /\ Return(Snapshot)
          /\ UNCHANGED <<params, updating_q>>
    /\ UNCHANGED <<engine, AUDIO_AVAILABLE, audio, history, devFail>>
    /\ UNCHANGED offline

(* on_hz_range_change testing the flag of another handler *)
hz_guard_wrong_flag == updating_q

hz_guard == updating_hz

(* the quotient of line 410 the other way up *)
hz_q_inverted(hz_range) == Div(hz_range, frequency)

(* the quality factor for a half-width in Hz *)
hz_q(hz_range) == Div(frequency, hz_range)

on_hz_range_change ==
    /\ Running("on_hz_range_change")
    /\ \/ /\ Top.pc = "enter"
          /\ IF hz_guard
             THEN /\ Return(Snapshot)
                  /\ UNCHANGED <<params, flags>>
             ELSE /\ updating_q' = TRUE
                  /\ updating_octave' = TRUE
                  /\ frequency_range_hz' = Top.arg
                  /\ Goto("q")
                  /\ UNCHANGED <<frequency, quality_factor,
                                 frequency_range_octaves, updating_hz>>
       \/ /\ Top.pc = "q"
          /\ IF frequency_range_hz = 0
             THEN /\ Raise(Snapshot)
                  /\ UNCHANGED <<params, flags>>
             ELSE /\ quality_factor' = hz_q(frequency_range_hz)
                  /\ Goto("oct")
                  /\ UNCHANGED <<frequency, frequency_range_hz,
                                 frequency_range_octaves, flags>>
       \/ /\ Top.pc = "oct"
          /\ IF hz_to_octaves_raises(frequency_range_hz)
             THEN /\ Raise(Snapshot)
                  /\ UNCHANGED <<params, flags>>
             ELSE /\ frequency_range_octaves' =
                        hz_to_octaves(frequency_range_hz)
                  /\ Goto("set1")
                  /\ UNCHANGED <<frequency, quality_factor,
                                 frequency_range_hz, flags>>
       \/ /\ Top.pc = "set1"
          /\ VarSet("on_q_change", quality_factor, "set2")
          /\ UNCHANGED <<params, flags>>
       \/ /\ Top.pc = "set2"
          /\ VarSet("on_octave_range_change", frequency_range_octaves, "exit")
          /\ UNCHANGED <<params, flags>>
       \/ /\ Top.pc = "exit"
          /\ updating_q' = FALSE
          /\ updating_octave' = FALSE
          /\ Return(Snapshot)
          /\ UNCHANGED <<params, updating_hz>>
    /\ UNCHANGED <<engine, AUDIO_AVAILABLE, audio, history, devFail>>
    /\ UNCHANGED offline

octave_guard == updating_octave

(* the quality factor for a half-width in Hz, 1.0 when there is no width *)
octave_q(hz_range) ==
    IF hz_range > 0 THEN Div(frequency, hz_range) ELSE Num(1)

on_octave_range_change ==
    /\ Running("on_octave_range_change")
    /\ \/ /\ Top.pc = "enter"
          /\ IF octave_guard
             THEN /\ Return(Snapshot)
                  /\ UNCHANGED <<params, flags>>
             ELSE /\ updating_q' = TRUE
                  /\ updating_hz' = TRUE
                  /\ frequency_range_octaves' = Top.arg
                  /\ frequency_range_hz' = octaves_to_hz(Top.arg)
                  /\ Goto("q")
                  /\ UNCHANGED <<frequency, quality_factor, updating_octave>>
       \/ /\ Top.pc = "q"
          /\ quality_factor' = octave_q(frequency_range_hz)
          /\ Goto("set1")
          /\ UNCHANGED <<frequency, frequency_range_hz,
                         frequency_range_octaves, flags>>
       \/ /\ Top.pc = "set1"
          /\ VarSet("on_q_change", quality_factor, "set2")
          /\ UNCHANGED <<params, flags>>
       \/ /\ Top.pc = "set2"
          /\ VarSet("on_hz_range_change", frequency_range_hz, "exit")
          /\ UNCHANGED <<params, flags>>
       \/ /\ Top.pc = "exit"
          /\ updating_q' = FALSE
          /\ updating_hz' = FALSE
          /\ Return(Snapshot)
          /\ UNCHANGED <<params, updating_octave>>
    /\ UNCHANGED <<engine, AUDIO_AVAILABLE, audio, history, devFail>>
    /\ UNCHANGED offline

----------------------------------------------------------------------------
(* Playback *)

PowerEvent ==
    /\ stack = <<>>
    /\ \E op \in {"toggle_power", "start_playback", "stop_playback"} :
         /\ stack' = <<Frame(op, 0)>>
         /\ lastOp' = op
    /\ lastArg' = 0
    /\ prev' = NoPrev
    /\ lastExit' = "running"
    /\ UNCHANGED <<params, flags, engine, AUDIO_AVAILABLE, audio, edits,
                   inDomain, committed, snaps, devFail>>
    /\ UNCHANGED offline

(* the id sd.OutputStream() hands out: a handle that is not open *)
FreeStreams == {s \in StreamIds : streams[s] = "free"}
NewStream == CHOOSE s \in FreeStreams : \A t \in FreeStreams : s <= t

start_playback ==
    /\ Running("start_playback")
    /\ \/ /\ Top.pc = "enter"
          /\ devFail' = FALSE
          /\ IF ~AUDIO_AVAILABLE
             THEN /\ Return(Snapshot)
                  /\ UNCHANGED engine
             ELSE /\ is_playing' = TRUE
                  /\ power_button' = "ON"
                  /\ Goto("open")
                  /\ UNCHANGED <<audio_stream, streams>>
       \/ /\ Top.pc = "open"
          /\ \/ /\ FreeStreams # {}           \* sd.OutputStream(...) opens
                /\ audio_stream' = NewStream
                /\ streams' = [streams EXCEPT ![NewStream] = "open"]
                /\ Goto("start")
                /\ UNCHANGED <<is_playing, power_button, devFail>>
             \/ /\ is_playing' = FALSE        \* it raises: except clause
                /\ devFail' = TRUE
                /\ Return(Snapshot)
                /\ UNCHANGED <<audio_stream, power_button, streams>>
       \/ /\ Top.pc = "start"
          /\ \/ /\ streams' = [streams EXCEPT ![audio_stream] = "active"]
                /\ Return(Snapshot)           \* audio_stream.start()
                /\ UNCHANGED <<is_playing, audio_stream, power_button,
                               devFail>>
             \/ /\ is_playing' = FALSE        \* it raises: except clause
                /\ devFail' = TRUE
                /\ Return(Snapshot)
                /\ UNCHANGED <<audio_stream, power_button, streams>>
    /\ played' = IF Top.pc = "start" THEN <<>> ELSE played
    /\ UNCHANGED <<params, flags, AUDIO_AVAILABLE, cb, history>>
    /\ UNCHANGED offline

(* stop_playback not testing self.audio_stream *)
has_audio_stream_untested == TRUE

(* if self.audio_stream: *)
has_audio_stream == audio_stream # None

stop_playback ==
    /\ Running("stop_playback")
    /\ \/ /\ Top.pc = "enter"
          /\ is_playing' = FALSE
          /\ power_button' = "OFF"
          /\ Goto("halt")
          /\ UNCHANGED <<audio_stream, streams>>
       \/ /\ Top.pc = "halt"
          /\ IF has_audio_stream
             THEN \* audio_stream.stop(): returns once no callback of the
                  \* stream is running
                  /\ cb.pc = "idle" \/ cb.stream # audio_stream
                  /\ streams' = [streams EXCEPT ![audio_stream] = "open"]
                  /\ Goto("close")
                  /\ UNCHANGED <<is_playing, audio_stream, power_button>>
             ELSE /\ Return(Snapshot)
                  /\ UNCHANGED engine
       \/ /\ Top.pc = "close"                 \* close(); audio_stream = None
          /\ streams' = [streams EXCEPT ![audio_stream] = "free"]
          /\ audio_stream' = None
          /\ Return(Snapshot)
          /\ UNCHANGED <<is_playing, power_button>>
    /\ UNCHANGED <<params, flags, AUDIO_AVAILABLE, audio, history, devFail>>
    /\ UNCHANGED offline

toggle_power ==
    /\ Running("toggle_power")
    /\ \/ /\ Top.pc = "enter"
          /\ stack' = Append([stack EXCEPT ![Len(stack)].pc =
                                IF is_playing THEN "off" ELSE "on"],
                             Frame(IF is_playing THEN "stop_playback"
                                   ELSE "start_playback", 0))
          /\ UNCHANGED <<exits, power_button>>
       \/ /\ Top.pc = "off"
          /\ power_button' = "OFF"
          /\ Return(Snapshot)
       \/ /\ Top.pc = "on"
          /\ power_button' = "ON"
          /\ Return(Snapshot)
    /\ UNCHANGED <<params, flags, is_playing, audio_stream, streams,
                   AUDIO_AVAILABLE, audio, history, devFail>>
    /\ UNCHANGED offline

----------------------------------------------------------------------------
(* Synthesis *)

amplitude == Frac(3, 10)
sweep_duration == Num(2)
TwoPi == Frac(62832, 10000)
Log2Of10 == Log2(Num(10))

(* math.log10 and 10 ** y *)
Log10(x) == Div(Log2(x), Log2Of10)
Pow10(y) == Exp2(Mul(y, Log2Of10))

(* get_frequency_weighting without the test of line 469 *)
get_frequency_weighting_untested(f) ==
    LET weight ==
          IF f < Num(1000)
          THEN Num(1) + Mul(Div(Num(1000) - f, Num(1000)), Frac(8, 10))
          ELSE IF f < Num(4000) THEN Num(1)
          ELSE Num(1) - Mul(Div(f - Num(4000), Num(16000)), Frac(6, 10))
    IN  Max(Frac(1, 10), Min(Num(2), weight))

get_frequency_weighting(f) ==
    IF f < Num(20) \/ f > Num(20000) THEN Frac(1, 10)
    ELSE LET weight ==
               IF f < Num(1000)
               THEN Num(1) + Mul(Div(Num(1000) - f, Num(1000)), Frac(8, 10))
               ELSE IF f < Num(4000) THEN Num(1)
               ELSE Num(1) - Mul(Div(f - Num(4000), Num(16000)), Frac(6, 10))
         IN  Max(Frac(1, 10), Min(Num(2), weight))

(* the sweep with the stream time not reduced to one cycle *)
sweep_freq_unwrapped(lower_freq, upper_freq, adc) ==
    LET sweep_phase == Div(adc, sweep_duration)
    IN  CHOOSE current_freq \in
            {Pow10(log_lower + Mul(sweep_phase, log_upper - log_lower)) :
                 log_lower \in {Log10(lower_freq)},
                 log_upper \in {Log10(upper_freq)}} : TRUE

(* the frequency of the block when the bounds allow a sweep *)
sweep_freq(lower_freq, upper_freq, adc) ==
    LET sweep_phase == Div(adc % sweep_duration, sweep_duration)
    IN  CHOOSE current_freq \in
            {Pow10(log_lower + Mul(sweep_phase, log_upper - log_lower)) :
                 log_lower \in {Log10(lower_freq)},
                 log_upper \in {Log10(upper_freq)}} : TRUE

(* 2 * np.pi * freq is beyond the largest finite number: the phase is inf,
   inf * 0 and sin(inf) are nan *)
Overflows(freq) == freq > Div(FloatMax, TwoPi)

(* the block written to outdata, by what it is made of *)
(* outdata left as the backend handed it over *)
Silence_unwritten == NoBlock

Silence ==
    [kind |-> "silence", freq |-> 0, weight |-> 0, amp |-> 0, depth |-> 0,
     partials |-> <<>>]

Pi == TwoPi \div 2

(* a tone of the block: frequency, amplitude, phase offset *)
Tone(freq, amp, phase) == [freq |-> freq, amp |-> amp, phase |-> phase]

(* the block of lines 580-602: main tone of weighted amplitude, and with
   notch the two tones next to it *)
Wave(freq, depth, notch) ==
    LET frequency_weight   == get_frequency_weighting(freq)
        weighted_amplitude == Mul(amplitude, frequency_weight)
    IN  [kind     |-> IF Overflows(freq) THEN "nan" ELSE "tone",
         freq     |-> freq,
         weight   |-> frequency_weight,
         amp      |-> weighted_amplitude,
         depth    |-> depth,
         partials |->
             IF notch
             THEN <<Tone(Mul(freq, Frac(95, 100)),
                         Mul(depth, weighted_amplitude), Pi),
                    Tone(Mul(freq, Frac(105, 100)),
                         Mul(depth, weighted_amplitude), Pi)>>
             ELSE <<>>]

(* notch_depth without the min(..., 1.0) *)
notch_depth_unbounded(q) == Mul(Div(q, Num(100)), Frac(2, 10))

(* np.arange(frames): the frame times of a block, in sample periods
   (t = np.arange(frames) / self.sample_rate) *)
arange(frames) == [i \in 1 .. frames |-> i - 1]

notch_depth(q) == Mul(Min(Div(q, Num(100)), Num(1)), Frac(2, 10))

----------------------------------------------------------------------------
(* Audio thread *)

(* the audio backend calls the callback of a started stream *)
CallbackBegin ==
    /\ cb.pc = "idle"
    /\ \E s \in StreamIds, adc \in AdcTimes :
         /\ streams[s] = "active"
         /\ cb' = [IdleCb EXCEPT !.pc = "check", !.stream = s, !.adc = adc]
    /\ snaps' = {committed}
    /\ UNCHANGED <<params, flags, engine, AUDIO_AVAILABLE, stack, history,
                   lastExit, committed, devFail, played>>
    /\ UNCHANGED offline

audio_callback ==
    /\ \/ /\ cb.pc = "check"
          /\ cb' = IF is_playing
                   THEN [cb EXCEPT !.pc = "lo_f", !.t = arange(Frames)]
                   ELSE [cb EXCEPT !.pc = "ret", !.out = Silence]
       \/ /\ cb.pc = "lo_f"
          /\ cb' = [cb EXCEPT !.pc = "lo_hz", !.a = frequency,
                              !.rf = @ \cup {frequency}]
       \/ /\ cb.pc = "lo_hz"
          /\ cb' = [cb EXCEPT !.pc = "hi_f", !.a = 0,
                              !.lower = Max(Num(20),
                                            cb.a - frequency_range_hz),
                              !.rhz = @ \cup {frequency_range_hz}]
       \/ /\ cb.pc = "hi_f"
          /\ cb' = [cb EXCEPT !.pc = "hi_hz", !.a = frequency,
                              !.rf = @ \cup {frequency}]
       \/ /\ cb.pc = "hi_hz"
          /\ LET upper_freq == Min(Num(20000), cb.a + frequency_range_hz)
                 sweeps == cb.lower > 0 /\ upper_freq > cb.lower
             IN  cb' = [cb EXCEPT
                          !.pc = IF sweeps THEN "q1" ELSE "fallback",
                          !.a = 0,
                          !.upper = upper_freq,
                          !.cur = IF sweeps
                                  THEN sweep_freq(cb.lower, upper_freq, cb.adc)
                                  ELSE 0,
                          !.rhz = @ \cup {frequency_range_hz}]
       \/ /\ cb.pc = "fallback"
          /\ cb' = [cb EXCEPT !.pc = "q1", !.cur = frequency,
                              !.rf = @ \cup {frequency}]
       \/ /\ cb.pc = "q1"
          /\ cb' = IF quality_factor > Num(1)
                   THEN [cb EXCEPT !.pc = "q2",
                                   !.rq = @ \cup {quality_factor}]
                   ELSE [cb EXCEPT !.pc = "ret",
                                   !.rq = @ \cup {quality_factor},
                                   !.out = Wave(cb.cur, 0, FALSE)]
       \/ /\ cb.pc = "q2"
          /\ cb' = [cb EXCEPT !.pc = "ret",
                              !.rq = @ \cup {quality_factor},
                              !.out = Wave(cb.cur,
                                           notch_depth(quality_factor),
                                           TRUE)]
    /\ UNCHANGED <<params, flags, engine, AUDIO_AVAILABLE, stack, history,
                   exits, devFail, played>>
    /\ UNCHANGED offline

(* the callback returning only once the control thread is back in the main
   loop *)
CallbackReturn_when_idle ==
    /\ stack = <<>>
    /\ cb.pc = "ret"
    /\ cb' = IdleCb
    /\ played' = IF cb.t = <<>> THEN played ELSE cb.t
    /\ snaps' = {}
    /\ UNCHANGED <<params, flags, engine, AUDIO_AVAILABLE, stack, history,
                   lastExit, committed, devFail>>
    /\ UNCHANGED offline

(* a return that would clear the playing flag *)
CallbackReturn_stops ==
    /\ cb.pc = "ret"
    /\ cb' = IdleCb
    /\ played' = IF cb.t = <<>> THEN played ELSE cb.t
    /\ snaps' = {}
    /\ is_playing' = FALSE
    /\ UNCHANGED <<params, flags, audio_stream, power_button, streams,
                   AUDIO_AVAILABLE, stack, history, lastExit, committed,
                   devFail>>
    /\ UNCHANGED offline

(* the callback returns to the backend *)
CallbackReturn ==
    /\ cb.pc = "ret"
    /\ cb' = IdleCb
    /\ played' = IF cb.t = <<>> THEN played ELSE cb.t
    /\ snaps' = {}
    /\ UNCHANGED <<params, flags, engine, AUDIO_AVAILABLE, stack, history,
                   lastExit, committed, devFail>>
    /\ UNCHANGED offline

----------------------------------------------------------------------------
(* Specifications *)

Control ==
    \/ on_frequency_change
    \/ on_q_change
    \/ on_hz_range_change
    \/ on_octave_range_change

(* control thread and audio thread *)
Next ==
    \/ LiveEditEvent
    \/ PowerEvent
    \/ Control
    \/ toggle_power
    \/ start_playback
    \/ stop_playback
    \/ CallbackBegin
    \/ audio_callback
    \/ CallbackReturn

Spec == Init /\ [][Next]_vars

(* the parameter handlers alone, over longer sequences of edits *)
NextControl ==
    \/ EditEvent
    \/ Control

SpecControl == Init /\ [][NextControl]_vars

(* get_frequency_weighting by itself: the callback is at line 580 with a
   given current_freq, and weighs it *)
InitWeighting ==
    /\ Constructed
    /\ \E f \in WeightInputs : cb = [IdleCb EXCEPT !.pc = "weigh", !.cur = f]
    /\ OfflineIdle

Weigh ==
    /\ cb.pc = "weigh"
    /\ cb' = [cb EXCEPT !.pc = "weighed", !.out = Wave(cb.cur, 0, FALSE)]
    /\ UNCHANGED <<params, flags, engine, AUDIO_AVAILABLE, stack, history,
                   exits, devFail, played>>
    /\ UNCHANGED offline

SpecWeighting == InitWeighting /\ [][Weigh]_vars

----------------------------------------------------------------------------
(* AudioProcessor (audio_processor.py): files are paths, the file system is
   the set of paths at which a non-empty file exists *)

MaxWorkers == 2

SUPPORTED_FORMATS == {".wav", ".mp3", ".flac", ".aac", ".ogg", ".m4a"}

(* Path(p).suffix.lower() *)
lower(ext) == IF ext = ".WAV" THEN ".wav" ELSE ext

(* Path(p).with_suffix(ext) *)
with_suffix(p, ext) == [p EXCEPT !.ext = ext]

(* Path(output_dir) / audio_file.relative_to(input_path) *)
relative_to_output(p) == [p EXCEPT !.dir = "output"]

(* input_path.glob("**/*" + ext) over the supported extensions; the match is
   on the extension as written *)
glob(fs) == {p \in fs : p.dir = "input" /\ p.ext \in SUPPORTED_FORMATS}

InputFiles ==
    {Path("input", "a", ".wav"), Path("input", "a", ".flac"),
     Path("input", "b", ".WAV"), Path("input", "notes", ".txt")}
OutputPaths == {Path("output", "out", ".wav"), Path("output", "out", ".mp3")}

(* the except clause of process_file: the error is logged, the result is
   False *)
process_file_reraises(f) == [f EXCEPT !.pc = "done", !.exit = "raise"]

process_file_except(f) ==
    [f EXCEPT !.pc = "done", !.result = FALSE, !.exit = "return"]

(* the caller: process_file(input_path, output_path) for some paths, or
   process_directory("input", "output") *)
BatchCall ==
    /\ batch.file.pc \in {"idle", "done"}
    /\ batch.directory.pc \in {"idle", "done"}
    /\ \/ \E i \in InputFiles, o \in OutputPaths :
              batch' = [batch EXCEPT
                            !.file = [IdleFile EXCEPT !.pc = "ext",
                                                      !.input_path = i,
                                                      !.output_path = o,
                                                      !.caller = "main"],
                            !.directory = IdleDirectory,
                            !.written = {}]
       \/ batch' = [batch EXCEPT
                        !.file = IdleFile,
                        !.directory = [IdleDirectory EXCEPT !.pc = "start"],
                        !.written = {}]
    /\ UNCHANGED <<tone, gui>>

(* process_file, one stage at a time; librosa, scipy, soundfile and mutagen
   succeed or raise as the environment decides, and loading a file that does
   not exist always raises *)
process_file ==
    /\ batch.file.pc \in {"ext", "load", "filter", "save", "metadata"}
    /\ LET f == batch.file
           mp3_output_path == with_suffix(f.output_path, ".mp3")
       IN  \/ /\ f.pc = "ext"
              /\ batch' =
                     [batch EXCEPT !.file =
                          IF lower(f.input_path.ext) \notin SUPPORTED_FORMATS
                          THEN [f EXCEPT !.pc = "done", !.result = FALSE,
                                         !.exit = "return"]
                          ELSE [f EXCEPT !.pc = "load"]]
           \/ /\ f.pc = "load"
              /\ \E ok \in {TRUE, FALSE} :
                     batch' =
                         [batch EXCEPT !.file =
                              IF ok /\ f.input_path \in batch.fs
                              THEN [f EXCEPT !.pc = "filter", !.loaded = "ok"]
                              ELSE process_file_except(
                                       [f EXCEPT !.loaded = "failed"])]
           \/ /\ f.pc = "filter"
              /\ \E ok \in {TRUE, FALSE} :
                     batch' =
                         [batch EXCEPT !.file =
                              IF ok
                              THEN [f EXCEPT !.pc = "save", !.filtered = "ok"]
                              ELSE process_file_except(
                                       [f EXCEPT !.filtered = "failed"])]
           \/ /\ f.pc = "save"
              /\ \E ok \in {TRUE, FALSE} :
                     batch' =
                         IF ok
                         THEN [batch EXCEPT
                                   !.fs = @ \cup {mp3_output_path},
                                   !.written =
                                       @ \cup {<<f.input_path,
                                                 mp3_output_path>>},
                                   !.file = [f EXCEPT !.pc = "metadata",
                                                      !.saved = "ok"]]
                         ELSE [batch EXCEPT !.file =
                                   process_file_except(
                                       [f EXCEPT !.saved = "failed"])]
           \/ /\ f.pc = "metadata"
              /\ \E ok \in {TRUE, FALSE} :
                     batch' =
                         [batch EXCEPT !.file =
                              [f EXCEPT !.pc = "done", !.result = TRUE,
                                        !.exit = "return",
                                        !.metadata =
                                            IF ok THEN "ok" ELSE "failed"]]
    /\ UNCHANGED <<tone, gui>>

(* process_directory: the files are found first, then processed one by one
   in the order the directory listing gives; os.makedirs may raise *)
process_directory ==
    /\ batch.directory.pc \in {"start", "loop", "wait"}
    /\ LET d == batch.directory
       IN  \/ /\ d.pc = "start"
              /\ \/ /\ ~batch.input_exists
                    /\ batch' = [batch EXCEPT !.directory =
                                     [d EXCEPT !.pc = "done",
                                               !.exit = "return"]]
                 \/ /\ batch.input_exists
                    /\ \E ok \in {TRUE, FALSE} :
                           batch' =
                               [batch EXCEPT !.directory =
                                    IF ok
                                    THEN [d EXCEPT !.pc = "loop",
                                                   !.audio_files =
                                                       glob(batch.fs)]
                                    ELSE [d EXCEPT !.pc = "done",
                                                   !.exit = "raise"]]
           \/ /\ d.pc = "loop"
              /\ \/ /\ d.audio_files = {}
                    /\ batch' = [batch EXCEPT !.directory =
                                     [d EXCEPT !.pc = "done",
                                               !.exit = "return"]]
                 \/ \E audio_file \in d.audio_files :
                        batch' =
                            [batch EXCEPT
                                 !.directory =
                                     [d EXCEPT !.pc = "wait",
                                               !.audio_files =
                                                   @ \ {audio_file}],
                                 !.file =
                                     [IdleFile EXCEPT
                                          !.pc = "ext",
                                          !.input_path = audio_file,
                                          !.output_path =
                                              relative_to_output(audio_file),
                                          !.caller = "process_directory"]]
           \/ /\ d.pc = "wait"
              /\ batch.file.pc = "done"
              /\ batch' =
                     [batch EXCEPT !.directory =
                          IF batch.file.exit = "raise"
                          THEN [d EXCEPT !.pc = "done", !.exit = "raise"]
                          ELSE [d EXCEPT
                                    !.pc = "loop",
                                    !.processed_files =
                                        IF batch.file.result
                                        THEN Append(@, batch.file.input_path)
                                        ELSE @]]
    /\ UNCHANGED <<tone, gui>>

----------------------------------------------------------------------------
(* NotchedMusicGUI (gui.py): the Tk main thread runs start_processing, each
   worker thread runs process_audio_files *)

DirInputs == {"", "missing", "input"}
OutDirInputs == {"", "output"}
NotchInputs == {Num(1000), 0}
QualityInputs == {Num(30), 0}
RangeInputs == {Num(50), 0}

(* os.path.exists(input_dir) *)
exists(dir) == dir = "input"

validate_inputs(g) ==
    /\ g.input_dir # ""
    /\ g.output_dir # ""
    /\ exists(g.input_dir)
    /\ g.notch_frequency > 0
    /\ g.quality_factor > 0
    /\ ~(g.use_frequency_range /\ g.frequency_range <= 0)

(* the test of line 264 *)
already_processing_untested(g) == FALSE

already_processing(g) == g.is_processing

(* the user fills in the form *)
GuiEdit ==
    /\ gui.pc = "idle"
    /\ \/ \E v \in DirInputs : gui' = [gui EXCEPT !.input_dir = v]
       \/ \E v \in OutDirInputs : gui' = [gui EXCEPT !.output_dir = v]
       \/ \E v \in NotchInputs : gui' = [gui EXCEPT !.notch_frequency = v]
       \/ \E v \in QualityInputs : gui' = [gui EXCEPT !.quality_factor = v]
       \/ \E v \in RangeInputs : gui' = [gui EXCEPT !.frequency_range = v]
       \/ \E v \in {TRUE, FALSE} :
              gui' = [gui EXCEPT !.use_frequency_range = v]
    /\ UNCHANGED <<tone, batch>>

(* start_processing on the main thread: the two tests, then the button, the
   flag and the thread *)
start_processing ==
    /\ \/ /\ gui.pc = "idle"
          /\ gui' = [gui EXCEPT !.pc = "validate", !.lastStart = "none"]
       \/ /\ gui.pc = "validate"
          /\ gui' = IF validate_inputs(gui)
                    THEN [gui EXCEPT !.pc = "check"]
                    ELSE [gui EXCEPT !.pc = "idle", !.lastStart = "invalid"]
       \/ /\ gui.pc = "check"
          /\ gui' = IF already_processing(gui)
                    THEN [gui EXCEPT !.pc = "idle", !.lastStart = "busy"]
                    ELSE [gui EXCEPT !.pc = "start"]
       \/ /\ gui.pc = "start"
          /\ Len(gui.workers) < MaxWorkers
          /\ gui' = [gui EXCEPT !.pc = "idle",
                                !.lastStart = "started",
                                !.process_button = "disabled",
                                !.is_processing = TRUE,
                                !.workers = Append(@, "init")]
    /\ UNCHANGED <<tone, batch>>

Remove(s, i) == [k \in 1..(Len(s) - 1) |-> IF k < i THEN s[k] ELSE s[k + 1]]

(* process_audio_files on a worker thread: any step of the try block may
   raise, which leads through the except clause to the finally clause; the
   last statement of the finally clause ends the thread *)
process_audio_files ==
    /\ \E w \in 1..Len(gui.workers) :
           \/ /\ gui.workers[w] = "init"
              /\ \E ok \in {TRUE, FALSE} :
                     gui' = [gui EXCEPT !.workers[w] =
                                 IF ok THEN "process" ELSE "finally"]
           \/ /\ gui.workers[w] = "process"
              /\ gui' = [gui EXCEPT !.workers[w] = "finally"]
           \/ /\ gui.workers[w] = "finally"
              /\ gui' = [gui EXCEPT !.workers = Remove(@, w),
                                    !.after = 1,
                                    !.is_processing = FALSE]
    /\ UNCHANGED <<tone, batch>>

(* root.after(0, ...): the main loop runs the queued re-enabling of the
   button *)
after ==
    /\ gui.pc = "idle"
    /\ gui.after > 0
    /\ gui' = [gui EXCEPT !.after = 0, !.process_button = "normal"]
    /\ UNCHANGED <<tone, batch>>

----------------------------------------------------------------------------
(* the file-processing programs by themselves *)

InitBatch ==
    /\ Constructed
    /\ cb = IdleCb
    /\ gui = IdleGui
    /\ \E fs \in SUBSET InputFiles, input_exists \in {TRUE, FALSE} :
           /\ input_exists \/ fs = {}
           /\ batch = [IdleBatch EXCEPT !.fs = fs,
                                        !.input_exists = input_exists]

NextBatch ==
    \/ BatchCall
    \/ process_file
    \/ process_directory

SpecBatch == InitBatch /\ [][NextBatch]_vars

NextGui ==
    \/ GuiEdit
    \/ start_processing
    \/ process_audio_files
    \/ after

SpecGui == Init /\ [][NextGui]_vars

----------------------------------------------------------------------------
(* Properties *)

Idle == stack = <<>>
Bandwidth == {"on_q_change", "on_hz_range_change", "on_octave_range_change"}
OpenStreams == {s \in StreamIds : streams[s] # "free"}

(* equal within tolerance: one part in a thousand, or 5 units of 1/S *)
Close(a, b) == Abs(a - b) <= Max(Abs(a), Abs(b)) \div 1000 + 5

HzIsFOverQ ==
    /\ quality_factor # 0
    /\ Close(frequency_range_hz, Div(frequency, quality_factor))

OctaveIsLog ==
    /\ ~hz_to_octaves_raises(frequency_range_hz)
    /\ Close(frequency_range_octaves, hz_to_octaves(frequency_range_hz))

(* the last call was a bandwidth setter, it has returned, and every argument
   so far was in its domain *)
C1_Settled == Idle /\ inDomain /\ lastOp \in Bandwidth

(* C1, as claimed: after a sequence of in-domain setter calls that ends with
   a bandwidth setter, HzRange = f/Q and OctaveRange = log2(1 + HzRange/f)
   within tolerance. *)
C1_AsClaimed == C1_Settled => HzIsFOverQ /\ OctaveIsLog

(* C1, amended: after a sequence of in-domain setter calls that ends with a
   bandwidth setter, OctaveRange = log2(1 + HzRange/f), and HzRange = f/Q
   whenever HzRange > 0; HzRange = 0 only after setOctaveRange(0), which
   stores Q = 1.0. *)
C1_Consistent ==
    C1_Settled =>
        /\ OctaveIsLog
        /\ IF frequency_range_hz > 0 THEN HzIsFOverQ
           ELSE /\ lastOp = "on_octave_range_change"
                /\ lastArg = 0
                /\ frequency_range_hz = 0
                /\ quality_factor = Num(1)

(* a frequency edit and then a width in octaves that round-trips through
   octaves_to_hz and hz_to_octaves *)
C1_Witness ==
    /\ C1_Settled
    /\ lastOp = "on_octave_range_change"
    /\ lastArg = Frac(1, 2)
    /\ frequency = Num(20000)

(* the values one callback invocation read are those of one snapshot *)
FromOneSnapshot ==
    \E s \in snaps : /\ cb.rf \subseteq {s.f}
                     /\ cb.rhz \subseteq {s.hz}
                     /\ cb.rq \subseteq {s.q}

(* C2: the frequency, quality factor and Hz range a callback invocation uses
   for its block all come from the parameters as one completed update left
   them, never from a mix of two updates (stated here for edits with
   in-domain arguments, which complete without raising). *)
C2_NoTornBlock ==
    (cb.pc = "ret" /\ cb.out.kind # "silence" /\ inDomain) => FromOneSnapshot

(* C3: at most one output stream is open at any time, and an open stream is
   the one audio_stream refers to. *)
C3_OneSession ==
    /\ Cardinality(OpenStreams) <= 1
    /\ \A s \in OpenStreams : audio_stream = s

(* C4: once stop_playback has returned the engine is Stopped, no stream the
   engine opened is still open, and no callback runs or can begin. *)
C4_StoppedAfterStop ==
    (Idle /\ lastOp = "stop_playback") =>
        /\ ~is_playing
        /\ OpenStreams = {}
        /\ cb.pc = "idle"

(* C5: when opening or starting the stream failed, start_playback leaves the
   engine Stopped with no stream open and none referenced by audio_stream. *)
C5_FailedStartLeavesNothing ==
    (Idle /\ lastOp = "start_playback" /\ devFail) =>
        /\ ~is_playing
        /\ audio_stream = None
        /\ OpenStreams = {}

(* what start_playback hands its caller: it has no return value and the
   class keeps no record of an error, so a device failure can reach the
   caller only as an exception *)
DeviceErrorSurfaced == lastExit = "raise"

(* C6: when start_playback returns after a device failure, its caller can
   observe that the failure occurred. *)
C6_FailureSurfaced ==
    (Idle /\ lastOp = "start_playback" /\ devFail) => DeviceErrorSurfaced

(* C7: a block whose synthesis fails (a non-finite value from a degenerate
   parameter combination) is written as silence. *)
C7_FailedBlockIsSilence ==
    (cb.pc = "ret" /\ Overflows(cb.cur)) => cb.out = Silence

(* C8: whatever number a bandwidth setter is given, it returns normally and
   leaves Q > 0, HzRange >= 0 and OctaveRange >= 0. *)
C8_SettersClamp ==
    (Idle /\ lastOp \in Bandwidth) =>
        /\ lastExit = "return"
        /\ quality_factor > 0
        /\ frequency_range_hz >= 0
        /\ frequency_range_octaves >= 0

(* C9: the stored frequency lies in [20, 20000] in every state, and after
   setFrequency(x) it is x clamped to that interval. *)
C9_FrequencyClamped ==
    /\ Num(20) <= frequency /\ frequency <= Num(20000)
    /\ (Idle /\ lastOp = "on_frequency_change") =>
           frequency = Min(Max(lastArg, Num(20)), Num(20000))

(* a bandwidth handler called by a widget variable that another bandwidth
   handler, still running, has just set *)
NestedCommand ==
    /\ Len(stack) >= 2
    /\ Top.op \in Bandwidth
    /\ stack[Len(stack) - 1].op \in Bandwidth \ {Top.op}

(* C10: a bandwidth handler invoked while another one is executing returns
   at once and leaves frequency, quality_factor, frequency_range_hz and
   frequency_range_octaves as they were. *)
C10_NoRecursiveSetter ==
    [][NestedCommand => (stack' = Pop /\ UNCHANGED params)]_vars

(* on_hz_range_change entered from hz_range_var.set() inside another
   bandwidth handler, which has set its flag *)
C10_Witness == NestedCommand /\ Top.op = "on_hz_range_change" /\ Top.pc = "enter" /\ updating_hz

(* setQ(q) has returned, q and every earlier argument in its domain *)
AfterSetQ == Idle /\ inDomain /\ lastOp = "on_q_change"

(* C11: for valid f and q, after setQ(q) the stored Q is q, HzRange is f/q
   and OctaveRange is log2(1 + HzRange/f) within tolerance; with f = 1000
   and q = 30, HzRange is about 33.33 and OctaveRange about 0.0472. *)
C11_SetQ ==
    AfterSetQ =>
        /\ lastExit = "return"
        /\ quality_factor = lastArg
        /\ Close(frequency_range_hz, Div(frequency, lastArg))
        /\ Close(frequency_range_octaves,
                 Log2(S + Div(frequency_range_hz, frequency)))
        /\ (frequency = Num(1000) /\ lastArg = Num(30)) =>
               /\ Close(frequency_range_hz, Frac(3333, 100))
               /\ Close(frequency_range_octaves, Frac(472, 10000))

(* setQ(30) at f = 1000, after an earlier edit *)
C11_Witness ==
    /\ AfterSetQ
    /\ edits >= 2
    /\ frequency = Num(1000)
    /\ lastArg = Num(30)

(* setQ(q) was called on valid parameters, HzRange was read, and
   setHzRange(HzRange) has returned *)
RoundTripDone ==
    /\ Idle
    /\ lastOp = "on_hz_range_change"
    /\ prev.op = "on_q_change"
    /\ prev.ok
    /\ lastArg = prev.hz

(* C12: setQ(q), reading HzRange and setHzRange(HzRange) reproduce Q = q
   within tolerance and leave HzRange and OctaveRange as setQ left them. *)
C12_RoundTrip ==
    RoundTripDone =>
        /\ lastExit = "return"
        /\ Close(quality_factor, prev.arg)
        /\ frequency_range_hz = prev.hz
        /\ frequency_range_octaves = prev.oct

(* the round trip of q = 30 at f = 20 *)
C12_Witness ==
    /\ RoundTripDone
    /\ prev.arg = Num(30)
    /\ frequency = Num(20)

(* the step in which setFrequency runs *)
SetFrequencyStep == At("on_frequency_change", "enter") /\ stack' # stack

(* C13: setFrequency changes the stored frequency and leaves
   quality_factor, frequency_range_hz, frequency_range_octaves, is_playing
   and the stream exactly as they were. *)
C13_FrequencyOnly ==
    [][SetFrequencyStep =>
          /\ frequency' = Top.arg
          /\ UNCHANGED <<quality_factor, frequency_range_hz,
                         frequency_range_octaves, is_playing, audio_stream,
                         streams>>]_vars

(* setFrequency is about to store a new frequency while a stream plays; the
   stored width is then no longer f/Q for the new f *)
C13_Witness ==
    /\ At("on_frequency_change", "enter")
    /\ Top.arg = Num(20000)
    /\ frequency = Num(1000)
    /\ is_playing
    /\ audio_stream # None
    /\ streams[audio_stream] = "active"

(* a block has been synthesized after an earlier one of the session *)
NextBlockDone == cb.pc = "ret" /\ cb.t # <<>> /\ played # <<>>

(* C14: the synthesis time is strictly increasing across the frames of a
   block and across consecutive blocks of a Playing session: the first frame
   of a block comes after the last frame of the block before it. *)
C14_TimeContinues ==
    /\ cb.t # <<>> =>
          \A i \in 1 .. Len(cb.t) - 1 : cb.t[i] < cb.t[i + 1]
    /\ NextBlockDone => cb.t[1] > played[Len(played)]

(* C15: within one audio_callback invocation each of frequency,
   frequency_range_hz and quality_factor has one value: an update landing
   while the block is synthesized does not change the values used for the
   rest of it (stated for edits with in-domain arguments). *)
C15_OneValuePerBlock ==
    (cb.pc = "ret" /\ inDomain) =>
        /\ Cardinality(cb.rf) <= 1
        /\ Cardinality(cb.rhz) <= 1
        /\ Cardinality(cb.rq) <= 1

(* the step in which a callback invocation tests self.is_playing and finds
   it False *)
ObservesStopped == cb.pc = "check" /\ ~is_playing /\ cb' # cb

(* C16: an audio_callback invocation that observes is_playing False writes
   zero to every frame of its block and returns, also when it races with
   stop_playback between the clearing of is_playing and the halt of the
   stream. *)
C16_StoppedIsSilence ==
    [][ObservesStopped =>
          /\ cb'.pc = "ret"
          /\ cb'.out.kind = "silence"
          /\ cb'.out.amp = 0]_vars

(* a callback of the stream being stopped has written its zeros while
   stop_playback has cleared is_playing and not yet halted the stream *)
C16_Witness ==
    /\ At("stop_playback", "halt")
    /\ cb.pc = "ret"
    /\ cb.stream = audio_stream
    /\ cb.out.kind = "silence"

(* a step of stop_playback, called with the engine Stopped and no stream *)
StopWhileStoppedStep ==
    /\ Running("stop_playback")
    /\ ~is_playing
    /\ audio_stream = None
    /\ stack' # stack

(* C17: stop_playback called when is_playing is False and audio_stream is
   None raises nothing, performs no stream operation and leaves is_playing
   False, audio_stream None and the four parameter fields unchanged. *)
C17_StopWhileStopped ==
    [][StopWhileStoppedStep =>
          /\ UNCHANGED <<params, is_playing, audio_stream, streams>>
          /\ Top.pc \in {"enter", "halt"}
          /\ Top.pc = "halt" =>
                /\ stack' = Pop
                /\ Pop = <<>> => lastExit' = "return"]_vars

(* stop_playback, called from the main loop with no stream, has cleared
   is_playing and is at its test of audio_stream *)
C17_Witness ==
    /\ At("stop_playback", "halt")
    /\ lastOp = "stop_playback"
    /\ ~is_playing
    /\ audio_stream = None

(* a callback invocation has computed both sweep bounds *)
BoundsComputed == cb.pc \in {"fallback", "q1", "q2", "ret"} /\ cb.t # <<>>

InAudibleRange(x) == Num(20) <= x /\ x <= Num(20000)

(* C18: for every f and HzRange the setters can store, both sweep bounds the
   callback uses lie in [20, 20000]; f = 20 with HzRange = 50 gives
   lower = 20 and f = 20000 with HzRange = 50 gives upper = 20000. *)
C18_BoundsInRange ==
    BoundsComputed =>
        /\ InAudibleRange(cb.lower)
        /\ InAudibleRange(cb.upper)
        /\ (cb.rf = {Num(20)} /\ cb.rhz = {Num(50)}) => cb.lower = Num(20)
        /\ (cb.rf = {Num(20000)} /\ cb.rhz = {Num(50)}) =>
               cb.upper = Num(20000)

(* the piecewise weighting, from the claim *)
PiecewiseWeight(f) ==
    IF f < Num(20) \/ f > Num(20000) THEN Frac(1, 10)
    ELSE IF f < Num(1000) THEN Num(1) + ((Num(1000) - f) * 8) \div 10000
    ELSE IF f < Num(4000) THEN Num(1)
    ELSE Num(1) - ((f - Num(4000)) * 6) \div 160000

(* C19: get_frequency_weighting equals the piecewise definition for every
   input frequency, its result lies in [0.1, 2.0], and w(1000) = 1.0,
   w(4000) = 1.0, w(20000) = 0.4, w(30000) = 0.1. *)
C19_Weighting ==
    cb.pc = "weighed" =>
        /\ Close(cb.out.weight, PiecewiseWeight(cb.cur))
        /\ Frac(1, 10) <= cb.out.weight /\ cb.out.weight <= Num(2)
        /\ cb.cur \in {Num(1000), Num(4000)} => cb.out.weight = Num(1)
        /\ cb.cur = Num(20000) => cb.out.weight = Frac(4, 10)
        /\ cb.cur = Num(30000) => cb.out.weight = Frac(1, 10)
        /\ (cb.cur < Num(20) \/ cb.cur > Num(20000)) =>
               cb.out.weight = Frac(1, 10)

(* the weighting of 20000 Hz, the end of the falling piece *)
C19_Witness ==
    /\ cb.pc = "weighed"
    /\ cb.cur = Num(20000)
    /\ cb.out.weight = Frac(4, 10)

(* a block has been synthesized with one value of quality_factor *)
BlockOfOneQ == cb.pc = "ret" /\ cb.t # <<>> /\ Cardinality(cb.rq) = 1
BlockQ == CHOOSE q \in cb.rq : TRUE

(* C20: the notch tones are part of a block if and only if the quality
   factor used for it is greater than 1; they are at 0.95 and 1.05 times
   the current frequency, with phase offset pi and amplitude
   min(Q/100, 1) * 0.2 * Ae, so their depth never exceeds 0.2. *)
C20_NotchIffQAboveOne ==
    BlockOfOneQ =>
        LET Ae    == cb.out.amp
            depth == Mul(Min(Div(BlockQ, Num(100)), Num(1)), Frac(2, 10))
        IN  IF BlockQ > Num(1)
            THEN /\ cb.out.partials =
                       <<Tone(Mul(cb.cur, Frac(95, 100)), Mul(depth, Ae), Pi),
                         Tone(Mul(cb.cur, Frac(105, 100)), Mul(depth, Ae),
                              Pi)>>
                 /\ cb.out.depth <= Frac(2, 10)
                 /\ \A i \in 1 .. 2 :
                       cb.out.partials[i].amp <= Mul(Frac(2, 10), Ae)
            ELSE cb.out.partials = <<>>

(* a block synthesized with a quality factor above 100: the depth is 0.2 *)
C20_Witness ==
    /\ BlockOfOneQ
    /\ BlockQ = Num(200)
    /\ cb.out.depth = Frac(2, 10)
    /\ Len(cb.out.partials) = 2

(* a callback invocation is in progress *)
InCallback == cb.pc # "idle"

(* a setter, start_playback or stop_playback is part-way through *)
ControlBusy ==
    /\ stack # <<>>
    /\ Top.op \in Setters \cup {"start_playback", "stop_playback"}

(* C21: an audio_callback invocation never waits on the control thread:
   wherever the control thread stands, the invocation in progress can take
   its next step, up to and including its return. *)
C21_CallbackNeverWaits ==
    InCallback => ENABLED (audio_callback \/ CallbackReturn)

(* a callback invocation is at its test of quality_factor while on_q_change
   is between its assignments to quality_factor and frequency_range_hz *)
C21_Witness ==
    /\ cb.pc = "q1"
    /\ ControlBusy
    /\ At("on_q_change", "hz")

FileDone == batch.file.pc = "done"
DirectoryDone == batch.directory.pc = "done" /\ batch.directory.exit = "return"
Processed ==
    {batch.directory.processed_files[k] :
         k \in 1..Len(batch.directory.processed_files)}

(* C22: whenever process_file(input_path, output_path) has returned True, a
   file exists at exactly output_path; and after process_directory, every
   input reported as processed has a file under the output directory at the
   same relative path and name *)
C22_OutputAtGivenPath ==
    /\ FileDone /\ batch.file.result => batch.file.output_path \in batch.fs
    /\ DirectoryDone =>
           \A p \in Processed : relative_to_output(p) \in batch.fs

(* C23: process_file never raises; an unsupported extension gives False
   before any load or write is attempted; a failed load (always so for an
   input that does not exist), filter or save gives False; the result is
   True exactly when load, filter and save all succeeded, whatever the
   metadata copy did *)
C23_ResultReportsPipeline ==
    FileDone =>
        LET f == batch.file
        IN  /\ f.exit = "return"
            /\ lower(f.input_path.ext) \notin SUPPORTED_FORMATS =>
                   /\ ~f.result
                   /\ f.loaded = "no" /\ f.filtered = "no" /\ f.saved = "no"
                   /\ f.metadata = "no"
            /\ f.input_path \notin batch.fs => ~f.result /\ f.saved = "no"
            /\ "failed" \in {f.loaded, f.filtered, f.saved} => ~f.result
            /\ f.result <=>
                   f.loaded = "ok" /\ f.filtered = "ok" /\ f.saved = "ok"

C23_Witness ==
    /\ FileDone
    /\ batch.file.result
    /\ batch.file.metadata = "failed"
    /\ batch.file.caller = "main"

(* C30: in one run of process_directory distinct inputs are written to
   distinct output files, so that there are as many output files as files
   reported as processed *)
C30_DistinctOutputs ==
    DirectoryDone =>
        /\ \A v, w \in batch.written : v[1] # w[1] => v[2] # w[2]
        /\ Cardinality({w[2] : w \in batch.written})
               = Len(batch.directory.processed_files)

StartStep == gui.pc # "idle" /\ gui'.pc = "idle"

(* C24: at most one worker thread runs process_audio_files at any time, and
   it runs only while is_processing is True; start_processing starts a
   worker only when validate_inputs passes and is_processing is False; with
   invalid inputs, and with is_processing already True, it starts no worker
   and leaves is_processing as it is *)
C24_OneWorker ==
    [][/\ Len(gui'.workers) <= 1
       /\ Len(gui'.workers) = 1 => gui'.is_processing
       /\ Len(gui'.workers) > Len(gui.workers) =>
              /\ validate_inputs(gui)
              /\ gui'.lastStart = "started"
              /\ Len(gui.workers) = 0
       /\ StartStep /\ gui'.lastStart \in {"invalid", "busy"} =>
              /\ gui'.workers = gui.workers
              /\ gui'.is_processing = gui.is_processing
       /\ StartStep /\ gui.pc = "validate" => ~validate_inputs(gui)
       /\ StartStep /\ gui.pc = "check" => gui.is_processing
       /\ gui.pc = "check" /\ gui'.pc = "start" => ~gui.is_processing]_vars

C24_Witness ==
    /\ gui.lastStart = "busy"
    /\ Len(gui.workers) = 1
    /\ gui.is_processing
    /\ gui.pc = "idle"

(* a step of the audio thread *)
CallbackStep == cb' # cb

(* C25: no step of audio_callback, playing or stopped, changes frequency,
   quality_factor, frequency_range_hz, frequency_range_octaves, is_playing
   or audio_stream; and is_playing changes only in a step of start_playback
   or stop_playback *)
C25_CallbackReadOnly ==
    [][/\ CallbackStep =>
              /\ UNCHANGED params
              /\ UNCHANGED <<is_playing, audio_stream>>
       /\ is_playing' # is_playing =>
              /\ stack # <<>>
              /\ Top.op \in {"start_playback", "stop_playback"}]_vars

(* an invocation has synthesized a tone block and is about to return, with
   the engine playing *)
C25_Witness ==
    /\ cb.pc = "ret"
    /\ cb.out.kind \notin {"none", "silence"}
    /\ is_playing
    /\ audio_stream # None

BandwidthRunning == \E k \in 1..Len(stack) : stack[k].op \in Bandwidth
OutsideEdit == Len(stack) = 1 /\ Top.op \in Bandwidth /\ Top.pc = "enter"

(* C27: whenever no bandwidth handler is executing the three guard flags
   are False, also after a handler has exited by raising; so an edit of Q,
   Hz range or octave range that arrives from outside is never returned by
   its guard *)
C27_FlagsClearWhenIdle ==
    /\ ~BandwidthRunning => ~updating_q /\ ~updating_hz /\ ~updating_octave
    /\ OutsideEdit => ~updating_q /\ ~updating_hz /\ ~updating_octave

(* the same for histories in which every argument was in its domain *)
C27_InDomain == inDomain => C27_FlagsClearWhenIdle

PowerReturned ==
    /\ stack = <<>>
    /\ lastOp \in {"toggle_power", "start_playback", "stop_playback"}
    /\ lastExit = "return"

(* C28: after toggle_power, start_playback or stop_playback has returned,
   the power button shows ON if and only if is_playing is True *)
C28_ButtonShowsState ==
    PowerReturned => (power_button = "ON" <=> is_playing)

(* the same with the audio backend available and no failure to open the
   stream *)
C28_BackendWorks ==
    AUDIO_AVAILABLE /\ ~devFail => C28_ButtonShowsState

(* what update_range_displays shows of a value: rounded to a multiple of
   unit *)
Shown(x, unit) == ((x + unit \div 2) \div unit) * unit

BeforeAnySetter == edits = 0 /\ lastOp \notin Setters

(* C29: before any setter is called, frequency_range_hz equals f/Q to the
   0.1 Hz shown and frequency_range_octaves equals log2(1 + HzRange/f) to
   the 0.01 octave shown *)
C29_InitialBandwidth ==
    BeforeAnySetter =>
        /\ Shown(frequency_range_hz, S \div 10)
               = Shown(Div(frequency, quality_factor), S \div 10)
        /\ Shown(frequency_range_octaves, S \div 100)
               = Shown(hz_to_octaves(frequency_range_hz), S \div 100)

(* the Hz half of it *)
C29_InitialHz ==
    BeforeAnySetter =>
        Shown(frequency_range_hz, S \div 10)
            = Shown(Div(frequency, quality_factor), S \div 10)

(* the block's frequency has been chosen from one value of frequency and one
   of frequency_range_hz *)
FrequencyChosen ==
    /\ cb.pc \in {"q1", "q2", "ret"}
    /\ cb.t # <<>>
    /\ Cardinality(cb.rf) = 1
    /\ Cardinality(cb.rhz) = 1
ReadF == CHOOSE f \in cb.rf : TRUE
SweepPhaseZero == cb.adc % sweep_duration = 0

(* C26: with lower >= upper the block's frequency is exactly the stored
   frequency, whatever the stream time; with lower < upper it lies in
   [lower, upper), and is lower at sweep phase 0 (both within the tolerance
   of the arithmetic) *)
C26_SweepSelection ==
    FrequencyChosen =>
        /\ cb.lower >= cb.upper => cb.cur = ReadF
        /\ cb.lower < cb.upper =>
               /\ cb.cur >= cb.lower \/ Close(cb.cur, cb.lower)
               /\ cb.cur < cb.upper \/ Close(cb.cur, cb.upper)
               /\ SweepPhaseZero => Close(cb.cur, cb.lower)

(* the width is 0 after on_octave_range_change(0): the block is at the
   stored frequency although the stream time is not at a cycle's start *)
C26_Witness ==
    /\ FrequencyChosen
    /\ lastOp = "on_octave_range_change"
    /\ cb.rhz = {0}
    /\ cb.lower >= cb.upper
    /\ ~SweepPhaseZero
    /\ cb.cur = frequency

(* a sweeping block at the end of a cycle: above lower, below upper *)
C26_Sweeps ==
    /\ FrequencyChosen
    /\ cb.lower < cb.upper
    /\ cb.adc = Frac(39999, 10000)
    /\ cb.cur > cb.lower + Num(1)
    /\ cb.cur < cb.upper

====
